---- MODULE Spec2Model ----
(***************************************************************************)
(* Model of scripts/reasoning_graph.py: the ReasoningGraph workflow         *)
(* (generate_query -> web_research -> reflection -> [web_research |         *)
(* finalize_answer] -> END) run over one shared state dictionary.           *)
(*                                                                          *)
(* The state dictionary is a function whose DOMAIN is the set of keys that  *)
(* are present, so that `"k" not in state` and state.get("k", d) are        *)
(* modelled as the code evaluates them.  Floats are scaled by 100           *)
(* (0.75 -> 75).  An f-string is the tuple of its literal text and the      *)
(* values it interpolates.                                                  *)
(***************************************************************************)
EXTENDS Integers, Sequences, FiniteSets, TLC

\* ------------------------------------------------------------------ bounds
\* caller-supplied iteration_count ranges over -MaxNegIter .. MaxInitIter
MaxNegIter == 2
MaxInitIter == 4
\* caller-supplied search_results / reflections hold at most MaxInitLen items
MaxInitLen == 1

\* SequentialAgent is given at most MaxAgents sub-agents
MaxAgents == 2

\* ------------------------------------------------------- program constants
HardCap == 3
Threshold == 75
ScoreHigh == 80
ScoreLow == 50
ScorePivot == 2

\* ------------------------------------------------------------ input sets
Queries == {"test"}
InitIterations == (0 - MaxNegIter) .. MaxInitIter
InitScores == {0, ScoreHigh}
\* scores an evaluation collaborator may report (float in [0,1], scaled)
Scores == {ScoreLow, Threshold - 1, Threshold, ScoreHigh}

RECURSIVE SeedList(_)
SeedList(n) == IF n = 0 THEN <<>> ELSE SeedList(n - 1) \o << <<"seed", n>> >>
InitLists == {SeedList(n) : n \in 0 .. MaxInitLen}
InitAnswers == {<<"caller answer">>}

\* the engine never needs more node executions than this for the inputs above
MaxSteps == 2 * (HardCap + MaxNegIter) + 6

\* --------------------------------------------------------------- dictionary
Get(st, k, d) == IF k \in DOMAIN st THEN st[k] ELSE d

Put(st, k, v) == [x \in (DOMAIN st) \cup {k} |-> IF x = k THEN v ELSE st[x]]

Restrict(st, ks) == [x \in ks |-> st[x]]

FieldNames ==
    {"query", "search_results", "reflections", "final_answer",
     "iteration_count", "quality_score"}

\* every dictionary a caller can pass to graph.invoke within the bounds
FullInputs ==
    [query : Queries, search_results : InitLists, reflections : InitLists,
     final_answer : InitAnswers, iteration_count : InitIterations,
     quality_score : InitScores]

\* the list-valued and answer fields are supplied together or not at all,
\* which keeps the number of initial states small
KeySets ==
    {ks \in SUBSET FieldNames :
        /\ ("search_results" \in ks) = ("reflections" \in ks)
        /\ ("final_answer" \in ks) => ("search_results" \in ks)}

InitialStates == {Restrict(f, ks) : f \in FullInputs, ks \in KeySets}

\* ------------------------------------------------------------- node bodies
\* generate_query as it would be if it zeroed the counter unconditionally
generate_query_reset(st) == Put(st, "iteration_count", 0)

generate_query(st) ==
    IF "iteration_count" \notin DOMAIN st
    THEN Put(st, "iteration_count", 0)
    ELSE st

\* web_research reads state['query'] by subscript: KeyError when it is absent
web_research_raises(st) == "query" \notin DOMAIN st

\* web_research as it would be if the increment were not stored
web_research_noinc(st) ==
    LET s1 == Put(st, "iteration_count", Get(st, "iteration_count", 0))
        results ==
            << <<"Research finding", s1["iteration_count"], s1["query"]>>,
               <<"Research detail", s1["iteration_count"], s1["query"]>> >>
    IN  Put(s1, "search_results", Get(s1, "search_results", <<>>) \o results)

\* web_research as it would be if it counted two per cycle
web_research_plus2(st) ==
    LET s1 == Put(st, "iteration_count", Get(st, "iteration_count", 0) + 2)
        results ==
            << <<"Research finding", s1["iteration_count"], s1["query"]>>,
               <<"Research detail", s1["iteration_count"], s1["query"]>> >>
    IN  Put(s1, "search_results", Get(s1, "search_results", <<>>) \o results)

\* web_research as it would be if it overwrote search_results
web_research_overwrite(st) ==
    LET s1 == Put(st, "iteration_count", Get(st, "iteration_count", 0) + 1)
        results ==
            << <<"Research finding", s1["iteration_count"], s1["query"]>>,
               <<"Research detail", s1["iteration_count"], s1["query"]>> >>
    IN  Put(s1, "search_results", results)

web_research(st) ==
    LET s1 == Put(st, "iteration_count", Get(st, "iteration_count", 0) + 1)
        results ==
            << <<"Research finding", s1["iteration_count"], s1["query"]>>,
               <<"Research detail", s1["iteration_count"], s1["query"]>> >>
    IN  Put(s1, "search_results", Get(s1, "search_results", <<>>) \o results)

append_reflection(st) ==
    LET r == <<"Quality assessment of iteration", st["iteration_count"]>>
    IN  Put(st, "reflections", Get(st, "reflections", <<>>) \o <<r>>)

\* the scoring as it would be with > in place of >=
reference_score_late(st) ==
    IF st["iteration_count"] > ScorePivot THEN ScoreHigh ELSE ScoreLow

reference_score(st) ==
    IF st["iteration_count"] >= ScorePivot THEN ScoreHigh ELSE ScoreLow

reflection(st) ==
    Put(append_reflection(st), "quality_score", reference_score(st))

\* reflection with the score reported by an evaluation collaborator
reflection_collaborator(st, score) ==
    Put(append_reflection(st), "quality_score", score)

\* finalize_answer as it would be if it counted the reflections
finalize_answer_reflections(st) ==
    Put(st, "final_answer",
        <<"Final answer based on", Len(Get(st, "reflections", <<>>)),
          "findings">>)

finalize_answer(st) ==
    Put(st, "final_answer",
        <<"Final answer based on", Len(Get(st, "search_results", <<>>)),
          "findings">>)

\* ------------------------------------------------------------------ routers
continue_to_web_research(st) == "web_research"

\* evaluate_research as it would be without the hard limit
evaluate_research_nocap(st) ==
    LET quality_score == Get(st, "quality_score", 0)
    IN  IF quality_score < Threshold
        THEN "web_research"
        ELSE "finalize_answer"

\* evaluate_research as it would be with the hard limit tested by >
evaluate_research_cap_late(st) ==
    LET quality_score == Get(st, "quality_score", 0)
        iteration_count == Get(st, "iteration_count", 0)
    IN  IF iteration_count > HardCap
        THEN "finalize_answer"
        ELSE IF quality_score < Threshold
             THEN "web_research"
             ELSE "finalize_answer"

\* evaluate_research as it would be with the threshold tested before the cap
evaluate_research_quality_first(st) ==
    LET quality_score == Get(st, "quality_score", 0)
        iteration_count == Get(st, "iteration_count", 0)
    IN  IF quality_score < Threshold
        THEN "web_research"
        ELSE IF iteration_count >= HardCap
             THEN "finalize_answer"
             ELSE "finalize_answer"

\* evaluate_research as it would be with the two quality branches swapped
evaluate_research_swapped(st) ==
    LET quality_score == Get(st, "quality_score", 0)
        iteration_count == Get(st, "iteration_count", 0)
    IN  IF iteration_count >= HardCap
        THEN "finalize_answer"
        ELSE IF quality_score < Threshold
             THEN "finalize_answer"
             ELSE "web_research"

\* evaluate_research as it would be if it also stopped on collected results
evaluate_research_peeks(st) ==
    LET quality_score == Get(st, "quality_score", 0)
        iteration_count == Get(st, "iteration_count", 0)
    IN  IF iteration_count >= HardCap
        THEN "finalize_answer"
        ELSE IF quality_score < Threshold
                /\ Len(Get(st, "search_results", <<>>)) = 0
             THEN "web_research"
             ELSE "finalize_answer"

\* evaluate_research as it would be if it returned a name that is not declared
evaluate_research_typo(st) ==
    LET quality_score == Get(st, "quality_score", 0)
        iteration_count == Get(st, "iteration_count", 0)
    IN  IF iteration_count >= HardCap
        THEN "finalize"
        ELSE IF quality_score < Threshold
             THEN "web_research"
             ELSE "finalize"

evaluate_research(st) ==
    LET quality_score == Get(st, "quality_score", 0)
        iteration_count == Get(st, "iteration_count", 0)
    IN  IF iteration_count >= HardCap
        THEN "finalize_answer"
        ELSE IF quality_score < Threshold
             THEN "web_research"
             ELSE "finalize_answer"

\* ---------------------------------------------------------- visualize_graph
\* the threshold named in the text visualize_graph returns (0.7)
DocThreshold == 70

\* the "Conditional Logic" lines of that text for the step after reflection
visualize_graph_logic(st) ==
    IF Get(st, "quality_score", 0) < DocThreshold
       /\ Get(st, "iteration_count", 0) < HardCap
    THEN "web_research"
    ELSE "finalize_answer"

\* -------------------------------------------------------------- build_graph
Nodes == {"generate_query", "web_research", "reflection", "finalize_answer"}

\* the edges as they would be if web_research led straight to finalize_answer
Edges_skip ==
    [START |-> "generate_query",
     web_research |-> "finalize_answer",
     finalize_answer |-> "END"]

Edges ==
    [START |-> "generate_query",
     web_research |-> "reflection",
     finalize_answer |-> "END"]

\* the declarations as they would be with a misspelt candidate
Candidates_typo ==
    [generate_query |-> {"web_research"},
     reflection |-> {"web_research", "finalise_answer"}]

Candidates ==
    [generate_query |-> {"web_research"},
     reflection |-> {"web_research", "finalize_answer"}]

RouterResult(node, st) ==
    IF node = "generate_query"
    THEN continue_to_web_research(st)
    ELSE evaluate_research(st)

\* -------------------------------------------------------------------- state
VARIABLES
    pc,             \* the node the engine is about to execute
    state,          \* the state dictionary threaded through the run
    initial_state,  \* the dictionary the caller passed to the run
    trace,          \* the nodes that have run to completion so far, in order
    scoreLog,       \* the quality_score written by each reflection so far
    declared,       \* the candidate targets each conditional edge declares
    sub_agents,     \* SequentialAgent: the list of sub-agents
    heap,           \* SequentialAgent: the dictionaries in memory, by identity
    current_state,  \* SequentialAgent: the dictionary current_state refers to
    invocations     \* SequentialAgent: the calls of agent.run made so far

\* the variables of SequentialAgent.run; the graph leaves them alone
adk == <<sub_agents, heap, current_state, invocations>>

vars == <<pc, state, initial_state, trace, scoreLog, declared, adk>>

NoSequentialAgent ==
    /\ sub_agents = <<>>
    /\ heap = <<>>
    /\ current_state = 0
    /\ invocations = <<>>

\* a router's result is looked up among the declared candidates of its edge;
\* a name that is not declared is an error that ends the run
Dispatch(node, target) ==
    IF target \in declared[node] THEN target ELSE "RouterContractViolation"

\* the node the engine runs after `node` has returned st
NextNode(node, st) ==
    IF node \in DOMAIN Edges
    THEN Edges[node]
    ELSE Dispatch(node, RouterResult(node, st))

Init ==
    /\ declared = Candidates
    /\ NoSequentialAgent
    /\ initial_state \in InitialStates
    /\ state = initial_state
    /\ pc = "START"
    /\ trace = <<>>
    /\ scoreLog = <<>>

\* --------------------------------------------------------------- operations
Start ==
    /\ pc = "START"
    /\ pc' = NextNode("START", state)
    /\ UNCHANGED <<state, initial_state, trace, scoreLog, declared, adk>>

GenerateQuery ==
    /\ pc = "generate_query"
    /\ Len(trace) < MaxSteps
    /\ state' = generate_query(state)
    /\ pc' = NextNode("generate_query", state')
    /\ trace' = Append(trace, "generate_query")
    /\ UNCHANGED <<initial_state, scoreLog, declared, adk>>

WebResearch ==
    /\ pc = "web_research"
    /\ Len(trace) < MaxSteps
    /\ IF web_research_raises(state)
       THEN \* the exception leaves graph.invoke: the run is over, the
            \* node's writes are dropped and the node did not complete
            /\ pc' = "KeyError"
            /\ UNCHANGED <<state, trace>>
       ELSE /\ state' = web_research(state)
            /\ pc' = NextNode("web_research", state')
            /\ trace' = Append(trace, "web_research")
    /\ UNCHANGED <<initial_state, scoreLog, declared, adk>>

Reflection ==
    /\ pc = "reflection"
    /\ Len(trace) < MaxSteps
    /\ state' = reflection(state)
    /\ pc' = NextNode("reflection", state')
    /\ trace' = Append(trace, "reflection")
    /\ scoreLog' = Append(scoreLog, state'["quality_score"])
    /\ UNCHANGED <<initial_state, declared, adk>>

ReflectionCollaborator ==
    /\ pc = "reflection"
    /\ Len(trace) < MaxSteps
    /\ \E score \in Scores : state' = reflection_collaborator(state, score)
    /\ pc' = NextNode("reflection", state')
    /\ trace' = Append(trace, "reflection")
    /\ scoreLog' = Append(scoreLog, state'["quality_score"])
    /\ UNCHANGED <<initial_state, declared, adk>>

FinalizeAnswer ==
    /\ pc = "finalize_answer"
    /\ Len(trace) < MaxSteps
    /\ state' = finalize_answer(state)
    /\ pc' = NextNode("finalize_answer", state')
    /\ trace' = Append(trace, "finalize_answer")
    /\ UNCHANGED <<initial_state, scoreLog, declared, adk>>

Next ==
    \/ Start
    \/ GenerateQuery
    \/ WebResearch
    \/ Reflection
    \/ FinalizeAnswer

Spec == Init /\ [][Next]_vars

\* graph.invoke runs the nodes synchronously until END: a step that is
\* enabled is taken
LiveSpec == Spec /\ WF_vars(Next)

\* the same graph with the scoring of reflection left to a collaborator
NextCollab ==
    \/ Start
    \/ GenerateQuery
    \/ WebResearch
    \/ ReflectionCollaborator
    \/ FinalizeAnswer

SpecCollab == Init /\ [][NextCollab]_vars

LiveSpecCollab == SpecCollab /\ WF_vars(NextCollab)

\* graph construction with any declaration of the two conditional edges,
\* followed by a run of the graph when construction succeeds
CandidateNames == {"web_research", "finalize_answer", "missing_node"}

Declarations ==
    [DOMAIN Candidates -> (SUBSET CandidateNames) \ {{}}]

\* compile() checks every edge end point and every declared candidate
\* against the node registry
ValidGraph(decl) ==
    /\ \A n \in DOMAIN decl : n \in Nodes /\ decl[n] \subseteq Nodes \cup {"END"}
    /\ \A n \in DOMAIN Edges :
           /\ n \in Nodes \cup {"START"}
           /\ Edges[n] \in Nodes \cup {"END"}

InitBuild ==
    /\ declared \in Declarations
    /\ NoSequentialAgent
    /\ initial_state \in InitialStates
    /\ state = initial_state
    /\ pc = "build_graph"
    /\ trace = <<>>
    /\ scoreLog = <<>>

Compile ==
    /\ pc = "build_graph"
    /\ pc' = IF ValidGraph(declared) THEN "START" ELSE "BuildError"
    /\ UNCHANGED <<state, initial_state, trace, scoreLog, declared, adk>>

NextBuild ==
    \/ Compile
    \/ Start
    \/ GenerateQuery
    \/ WebResearch
    \/ Reflection
    \/ FinalizeAnswer

SpecBuild == InitBuild /\ [][NextBuild]_vars

\* evaluate_research called on its own, on any state dictionary
AllScores == Scores \cup {0, 100}

RouterFullInputs ==
    [query : Queries, search_results : InitLists, reflections : InitLists,
     final_answer : InitAnswers, iteration_count : InitIterations,
     quality_score : AllScores]

RouterStates == {Restrict(f, ks) : f \in RouterFullInputs, ks \in KeySets}

InitRouter ==
    /\ declared = Candidates
    /\ NoSequentialAgent
    /\ initial_state \in RouterStates
    /\ state = initial_state
    /\ pc = "evaluate_research"
    /\ trace = <<>>
    /\ scoreLog = <<>>

\* the router returns a node name and assigns nothing
CallEvaluateResearch ==
    /\ pc = "evaluate_research"
    /\ pc' = evaluate_research(state)
    /\ UNCHANGED <<state, initial_state, trace, scoreLog, declared, adk>>

NextRouter == CallEvaluateResearch

SpecRouter == InitRouter /\ [][NextRouter]_vars

\* ------------------------------------------------- custom_adk: Agent.run
\* Dictionaries live in `heap` and are referred to by their index, so that
\* copy(), aliasing and the nested tool_outputs dictionary behave as in
\* Python.  A dictionary value that is itself a dictionary is Ref(n).
EmptyDict == [x \in {} |-> 0]

Ref(n) == <<"dict", n>>

PutAt(h, r, k, v) == [h EXCEPT ![r] = Put(h[r], k, v)]

AgentNames == {"primary_handler", "fallback_handler"}

AllTools ==
    {"get_precise_location_info", "get_general_area_info",
     "troubleshoot_issue"}

HumanLoopTools == {"troubleshoot_issue", "create_ticket", "escalate_to_human"}

\* an agent: its name, the names of its tools, the number of its callbacks
AgentPool == [name : AgentNames, tools : {AllTools}, callbacks : {0, 1}]

RECURSIVE ListsUpTo(_, _)
ListsUpTo(S, n) ==
    IF n = 0 THEN {<<>>}
    ELSE LET shorter == ListsUpTo(S, n - 1)
         IN  shorter \cup {Append(l, x) : l \in shorter, x \in S}

AgentLists == ListsUpTo(AgentPool, MaxAgents)

\* what a tool call of the model's response does: the tool returns a falsy
\* or a truthy result, or raises
ToolResults == {"", "info"}

ToolCalls ==
    [name : AllTools \cup {"google_search"}, result : ToolResults \cup {"raise"}]

\* the tool_calls of a response: none, one, or a successful precise lookup
\* followed by any call
ToolCallLists ==
    {<<>>} \cup {<<c>> : c \in ToolCalls}
        \cup {<<[name |-> "get_precise_location_info", result |-> "info"], c>> :
                  c \in ToolCalls}

\* what the environment does during one Agent.run: building the model or a
\* callback raises (before the try), the model invocation raises, or the
\* model answers with a list of tool calls
Outcomes(agent) ==
    {[kind |-> "construct_raises", calls |-> <<>>],
     [kind |-> "invoke_raises", calls |-> <<>>]}
        \cup (IF agent.callbacks > 0
              THEN {[kind |-> "callback_raises", calls |-> <<>>]}
              ELSE {})
        \cup {[kind |-> "response", calls |-> cs] : cs \in ToolCallLists}

\* state.setdefault("tool_outputs", {})[tool_name] = result
set_tool_output(h, r, tool_name, result) ==
    IF "tool_outputs" \in DOMAIN h[r]
    THEN PutAt(h, h[r]["tool_outputs"][2], tool_name, result)
    ELSE LET n == Len(h) + 1
             h1 == PutAt(Append(h, EmptyDict), r, "tool_outputs", Ref(n))
         IN  PutAt(h1, n, tool_name, result)

\* the state updates that follow a tool result
tool_effects(h, r, tool_name, result) ==
    LET h1 == set_tool_output(h, r, tool_name, result)
        h2 == IF tool_name = "get_precise_location_info"
              THEN IF result # ""
                   THEN PutAt(PutAt(h1, r, "location_result", result),
                              r, "primary_location_failed", FALSE)
                   ELSE PutAt(h1, r, "primary_location_failed", TRUE)
              ELSE IF tool_name = "get_general_area_info"
                   THEN PutAt(h1, r, "location_result", result)
                   ELSE h1
    IN  IF tool_name \in HumanLoopTools
        THEN PutAt(h2, r, "last_action_result", result)
        ELSE h2

\* the except block as it would be if it recorded nothing
on_exception_silent(agent, h, r) == h

\* the except block
on_exception(agent, h, r) ==
    IF agent.name = "primary_handler"
    THEN PutAt(h, r, "primary_location_failed", TRUE)
    ELSE h

\* the loop over response.tool_calls, inside the try
RECURSIVE run_tool_calls(_, _, _, _)
run_tool_calls(agent, h, r, calls) ==
    IF calls = <<>> THEN h
    ELSE LET c == Head(calls)
         IN  IF c.name \notin agent.tools
             THEN run_tool_calls(agent, h, r, Tail(calls))
             ELSE IF c.result = "raise"
                  THEN on_exception(agent, h, r)
                  ELSE run_tool_calls(agent,
                           tool_effects(h, r, c.name, c.result), r,
                           Tail(calls))

\* whether the outcome makes the try block raise
RECURSIVE ToolRaises(_, _)
ToolRaises(agent, calls) ==
    IF calls = <<>> THEN FALSE
    ELSE \/ (Head(calls).name \in agent.tools /\ Head(calls).result = "raise")
         \/ ToolRaises(agent, Tail(calls))

\* Agent.run(state): the heap afterwards, and the dictionary it returns
\* (0 when an exception leaves the method)
agent_run(agent, h, r, outcome) ==
    IF outcome.kind \in {"construct_raises", "callback_raises"}
    THEN [heap |-> h, returned |-> 0]
    ELSE IF outcome.kind = "invoke_raises"
    THEN [heap |-> on_exception(agent, h, r), returned |-> r]
    ELSE [heap |-> run_tool_calls(agent, h, r, outcome.calls), returned |-> r]

\* ------------------------------------------- custom_adk: SequentialAgent
\* current_state = initial_state.copy() as it would be without the copy
sequential_alias(h, r) == [heap |-> h, ref |-> r]

\* current_state = initial_state.copy(): a new dictionary with the same
\* top-level bindings (nested dictionaries are shared)
sequential_copy(h, r) == [heap |-> Append(h, h[r]), ref |-> Len(h) + 1]

\* the mappings a caller passes: empty, with a flag, or with a tool_outputs
\* dictionary of its own
CallerHeaps ==
    {<<EmptyDict>>,
     <<[primary_location_failed |-> FALSE, location_result |-> "old"]>>,
     <<[tool_outputs |-> Ref(2)], [google_search |-> "old"]>>}

InitSeq ==
    /\ sub_agents \in AgentLists
    /\ heap \in CallerHeaps
    /\ initial_state = heap[1]
    /\ current_state = 0
    /\ invocations = <<>>
    /\ pc = "SequentialAgent.run"
    /\ state = EmptyDict
    /\ trace = <<>>
    /\ scoreLog = <<>>
    /\ declared = Candidates

SeqCopy ==
    /\ pc = "SequentialAgent.run"
    /\ LET c == sequential_copy(heap, 1)
       IN  heap' = c.heap /\ current_state' = c.ref
    /\ pc' = "for_agent"
    /\ UNCHANGED <<state, initial_state, trace, scoreLog, declared,
                   sub_agents, invocations>>

SeqAgentRun ==
    /\ pc = "for_agent"
    /\ Len(invocations) < Len(sub_agents)
    /\ LET i == Len(invocations) + 1
           agent == sub_agents[i]
       IN  \E outcome \in Outcomes(agent) :
               LET res == agent_run(agent, heap, current_state, outcome)
               IN  /\ heap' = res.heap
                   /\ invocations' =
                          Append(invocations,
                                 [agent |-> i,
                                  received |-> current_state,
                                  returned |-> res.returned,
                                  kind |-> outcome.kind,
                                  tool_raised |->
                                      ToolRaises(agent, outcome.calls)])
                   /\ IF res.returned = 0
                      THEN /\ pc' = "raised"
                           /\ UNCHANGED <<current_state, trace>>
                      ELSE /\ pc' = "for_agent"
                           /\ current_state' = res.returned
                           /\ trace' = Append(trace, agent.name)
    /\ UNCHANGED <<state, initial_state, scoreLog, declared, sub_agents>>

SeqReturn ==
    /\ pc = "for_agent"
    /\ Len(invocations) = Len(sub_agents)
    /\ pc' = "returned"
    /\ UNCHANGED <<state, initial_state, trace, scoreLog, declared, adk>>

NextSeq ==
    \/ SeqCopy
    \/ SeqAgentRun
    \/ SeqReturn

SpecSeq == InitSeq /\ [][NextSeq]_vars

\* ---------------------------------------------------------- derived values
RECURSIVE Count(_, _)
Count(s, x) ==
    IF s = <<>> THEN 0
    ELSE (IF s[Len(s)] = x THEN 1 ELSE 0) + Count(SubSeq(s, 1, Len(s) - 1), x)

nWeb == Count(trace, "web_research")
nRefl == Count(trace, "reflection")

\* the value iteration_count starts from: the caller's, or 0 when absent
Iter0 == Get(initial_state, "iteration_count", 0)
Len0(k) == Len(Get(initial_state, k, <<>>))

Max(a, b) == IF a >= b THEN a ELSE b

TypeOK ==
    /\ pc \in Nodes \cup {"START", "END", "KeyError", "evaluate_research",
                      "build_graph", "BuildError", "RouterContractViolation",
                      "SequentialAgent.run", "for_agent", "returned",
                      "raised"}
    /\ DOMAIN state \subseteq FieldNames
    /\ Len(trace) <= MaxSteps

\* the MaxSteps guard of the node actions never holds a run back
StepBoundNotReached == (pc \in Nodes) => (Len(trace) < MaxSteps)

IterationCount == Get(state, "iteration_count", 0)
LenOf(k) == Len(Get(state, k, <<>>))
QueryGiven == "query" \in DOMAIN initial_state

\* ------------------------------------------------------------------ claims

\* C1: from every initial state that holds a query (iteration_count and
\* quality_score supplied by the caller or absent), and whatever score each
\* reflection reports, the run eventually reaches END.
C1_Terminates == QueryGiven ~> (pc = "END")

\* a run that went round the loop more often than the cap and still ended
C1_Witness == pc = "END" /\ nWeb > HardCap

\* C2 (as stated): web_research executes at most 3 times in every run.
C2_AtMostThreeResearch == nWeb <= HardCap

\* C2 (amended): web_research executes at most max(1, 3 - i0) times, i0 being
\* the iteration_count the run starts from (0 when absent); so at most 3
\* times when the caller supplies none or a non-negative one.
C2_ResearchBound == nWeb <= Max(1, HardCap - Iter0)

C2_Witness == pc = "END" /\ Iter0 = 0 - 1 /\ nWeb = HardCap

\* C3 (as stated): the final state's iteration_count is at most 3.
C3_FinalAtMostThree == (pc = "END") => (state["iteration_count"] <= HardCap)

\* C3 (amended): the final state's iteration_count is at most
\* max(3, i0 + 1): at most 3 when the run starts below the cap, and one more
\* than the caller's value otherwise.
C3_FinalBound ==
    (pc = "END") => (state["iteration_count"] <= Max(HardCap, Iter0 + 1))

C3_Witness ==
    /\ pc = "END"
    /\ Iter0 >= HardCap
    /\ state["iteration_count"] = Iter0 + 1

\* C4 (as stated, once web_research has run, for a run whose starting
\* iteration_count is not negative): iteration_count equals the number of
\* web_research executions so far.
C4_CountEqualsResearch ==
    (nWeb >= 1 /\ Iter0 >= 0) => (IterationCount = nWeb)

\* C4 (amended): iteration_count equals the value the run started from (0
\* when absent) plus the number of web_research executions so far; it is
\* never reset mid-run.
C4_CountTracksResearch == IterationCount = Iter0 + nWeb

C4_Witness ==
    /\ "iteration_count" \in DOMAIN initial_state
    /\ Iter0 # 0
    /\ nWeb >= 2

\* C5: a web_research execution raises iteration_count by exactly 1; every
\* other step leaves it as it is (generate_query only gives an absent field
\* the value 0 it is read as); it never decreases.
C5_StepEffect ==
    LET before == IterationCount
        after == Get(state', "iteration_count", 0)
    IN  /\ after >= before
        /\ IF pc = "web_research" /\ pc' # "KeyError"
           THEN after = before + 1
           ELSE after = before
        /\ ("iteration_count" \in DOMAIN state)
               => ("iteration_count" \in DOMAIN state')

C5_IncrementOnlyInResearch == [][C5_StepEffect]_vars

C5_Witness ==
    /\ pc = "reflection"
    /\ nWeb = 2
    /\ IterationCount = Iter0 + 2

\* C6 (as stated, for a caller that supplies no lists): len(search_results)
\* equals the number of web_research executions and len(reflections) the
\* number of reflection executions.
C6_LengthsEqualExecutions ==
    (Len0("search_results") = 0 /\ Len0("reflections") = 0)
        => /\ LenOf("search_results") = nWeb
           /\ LenOf("reflections") = nRefl

\* C6 (amended): the two lengths never decrease; len(search_results) is its
\* initial length plus 2 per web_research execution and len(reflections) is
\* its initial length plus 1 per reflection execution.
C6_LengthEffect ==
    /\ LenOf("search_results") = Len0("search_results") + 2 * nWeb
    /\ LenOf("reflections") = Len0("reflections") + nRefl
    /\ Len(Get(state', "search_results", <<>>)) >= LenOf("search_results")
    /\ Len(Get(state', "reflections", <<>>)) >= LenOf("reflections")

C6_LengthsTrackExecutions == [][C6_LengthEffect]_vars

C6_Witness ==
    /\ nWeb = 2
    /\ nRefl = 2
    /\ LenOf("search_results") = 4
    /\ LenOf("reflections") = 2

QualityScore == Get(state, "quality_score", 0)

\* C7: evaluate_research checks the cap before the threshold: with
\* iteration_count >= 3 it returns finalize_answer whatever quality_score is;
\* below the cap it returns web_research when quality_score < 0.75 and
\* finalize_answer otherwise; a missing field is read as 0.
C7_RouterDecision ==
    (pc # "evaluate_research") =>
        /\ (IterationCount >= 3) => (pc = "finalize_answer")
        /\ (IterationCount < 3 /\ QualityScore < 75) => (pc = "web_research")
        /\ (IterationCount < 3 /\ QualityScore >= 75)
               => (pc = "finalize_answer")

\* the cap wins over a score below the threshold
C7_Witness ==
    /\ pc = "finalize_answer"
    /\ trace = <<>>
    /\ IterationCount >= 3
    /\ QualityScore < 75

\* the iteration_count the j-th reflection of this run ran at, read back from
\* the reflection string it appended
ReflectionIter(j) == state["reflections"][Len0("reflections") + j][2]

\* C8: a reflection that leaves quality_score >= 0.75 with iteration_count
\* below 3 is the last one: the run goes to finalize_answer and END with no
\* further web_research, and iteration_count stays below 3.
C8_EarlyExit ==
    \A j \in 1 .. Len(scoreLog) :
        (scoreLog[j] >= Threshold /\ ReflectionIter(j) < HardCap) =>
            /\ j = nRefl
            /\ nWeb = nRefl
            /\ pc \in {"finalize_answer", "END"}
            /\ IterationCount = ReflectionIter(j)

C8_Witness ==
    /\ pc = "END"
    /\ scoreLog[Len(scoreLog)] >= Threshold
    /\ IterationCount = HardCap - 1
    /\ nWeb = 1

AllLow == \A j \in 1 .. Len(scoreLog) : scoreLog[j] < Threshold

\* C9: a run that starts below the cap and in which every reflection reports
\* a score below 0.75 selects finalize_answer only at iteration_count == 3,
\* ends with iteration_count == 3, and does end.
C9_CapPathState ==
    (AllLow /\ Iter0 < HardCap /\ pc \in {"finalize_answer", "END"})
        => (IterationCount = HardCap)

ScenarioTrace ==
    <<"generate_query", "web_research", "reflection", "web_research",
      "reflection", "finalize_answer">>
ScenarioIter == <<0, 1, 1, 2, 2, 2>>
ScenarioScore == <<0, 0, 50, 50, 80, 80>>
ScenarioNext ==
    <<"web_research", "reflection", "web_research", "reflection",
      "finalize_answer", "END">>

C10_ScenarioA ==
    (DOMAIN initial_state = {"query"} /\ trace # <<>>) =>
        LET n == Len(trace)
        IN  /\ n <= Len(ScenarioTrace)
            /\ trace = SubSeq(ScenarioTrace, 1, n)
            /\ pc = ScenarioNext[n]
            /\ state["iteration_count"] = ScenarioIter[n]
            /\ ("quality_score" \in DOMAIN state) = (n >= 3)
            /\ QualityScore = ScenarioScore[n]
            /\ (pc = "END") =>
                   /\ state["iteration_count"] = 2
                   /\ Len(state["search_results"]) = 4
                   /\ Len(state["reflections"]) = 2

C10_Witness ==
    /\ DOMAIN initial_state = {"query"}
    /\ pc = "END"
    /\ trace = ScenarioTrace
    /\ scoreLog = <<50, 80>>

\* two state dictionaries that evaluate_research reads the same pair from
SameRouterInputs(a, b) ==
    /\ Get(a, "iteration_count", 0) = Get(b, "iteration_count", 0)
    /\ Get(a, "quality_score", 0) = Get(b, "quality_score", 0)

\* C11: evaluate_research depends on (iteration_count, quality_score) only:
\* every state dictionary that agrees with the one it was called on in these
\* two fields gets the same target, whatever its other fields hold, and the
\* call leaves the dictionary as it was.
C11_RouterPure ==
    (pc # "evaluate_research") =>
        /\ state = initial_state
        /\ \A other \in RouterStates :
               SameRouterInputs(state, other)
                   => (evaluate_research(other) = pc)

\* a call on a dictionary for which another one differs in the other fields
C11_Witness ==
    /\ pc = "web_research"
    /\ trace = <<>>
    /\ DOMAIN state = {"iteration_count", "quality_score"}
    /\ \E other \in RouterStates :
           /\ SameRouterInputs(state, other)
           /\ "search_results" \in DOMAIN other
           /\ Len(other["search_results"]) > 0

\* C12: the conditional logic that visualize_graph documents (loop exactly
\* when quality_score < 0.7 and iteration_count < 3) names the target that
\* evaluate_research returns, for every (iteration_count, quality_score).
C12_DocumentedLogicAgrees ==
    (pc # "evaluate_research") => (pc = visualize_graph_logic(state))

\* C13: construction fails, before any run starts, whenever a conditional
\* edge declares a candidate that is not a registered node; the graph of
\* build_graph passes, every declared candidate and every end point of an
\* unconditional edge being a registered node, START or END.
C13_BuildCheck ==
    /\ Candidates["generate_query"] = {"web_research"}
    /\ Candidates["reflection"] = {"web_research", "finalize_answer"}
    /\ \A n \in DOMAIN Candidates : n \in Nodes /\ Candidates[n] \subseteq Nodes
    /\ \A n \in DOMAIN Edges :
           n \in Nodes \cup {"START"} /\ Edges[n] \in Nodes \cup {"END"}
    /\ (pc # "build_graph") =>
           /\ (\E n \in DOMAIN declared : ~(declared[n] \subseteq Nodes))
                  => /\ pc = "BuildError"
                     /\ trace = <<>>
                     /\ state = initial_state
           /\ (declared = Candidates) => (pc # "BuildError")

C13_Witness ==
    /\ pc = "BuildError"
    /\ declared["generate_query"] = Candidates["generate_query"]
    /\ "missing_node" \in declared["reflection"]

\* C14 (state part): in a run of the graph of build_graph no router returns a
\* name outside its declared candidates.
C14_DeclaredTargetsOnly ==
    (declared = Candidates) => (pc # "RouterContractViolation")

\* C14 (step part): after a node with a conditional edge the run goes to the
\* name its router returned when that name is declared, and otherwise into
\* the error state, which no step leaves; no other node is substituted.
C14_DispatchStep ==
    /\ (pc \in DOMAIN declared) =>
           LET target == RouterResult(pc, state')
           IN  IF target \in declared[pc]
               THEN pc' = target
               ELSE pc' = "RouterContractViolation"
    /\ (pc = "RouterContractViolation") => (pc' = pc /\ trace' = trace)

\* C14: every target a router returns is one of the candidates declared for
\* it; an undeclared target ends the run in an error state and is never
\* coerced to another node.
C14_RouterContract == []C14_DeclaredTargetsOnly /\ [][C14_DispatchStep]_vars

C14_Witness ==
    /\ pc = "RouterContractViolation"
    /\ declared["reflection"] = {"web_research"}
    /\ evaluate_research(state) = "finalize_answer"

FinalAnswerChanged ==
    \/ ("final_answer" \in DOMAIN state') # ("final_answer" \in DOMAIN state)
    \/ /\ "final_answer" \in DOMAIN state
       /\ "final_answer" \in DOMAIN state'
       /\ state'["final_answer"] # state["final_answer"]

\* C15 (step part): only a finalize_answer step changes final_answer; that
\* step writes the summary of the number of search results held at that
\* moment, changes nothing else, and is followed by END.
C15_FinalizeStep ==
    /\ FinalAnswerChanged => (pc = "finalize_answer")
    /\ (pc = "finalize_answer") =>
           /\ pc' = "END"
           /\ state' = Put(state, "final_answer",
                           <<"Final answer based on",
                             LenOf("search_results"), "findings">>)

\* C15 (state part): finalize_answer has run at most once, and exactly once,
\* as the last node, when the run is at END.
C15_FinalizeOnce ==
    /\ Count(trace, "finalize_answer") <= 1
    /\ (pc = "END") =>
           /\ Count(trace, "finalize_answer") = 1
           /\ trace[Len(trace)] = "finalize_answer"
           /\ "final_answer" \in DOMAIN state

\* C15: final_answer is written once per run, by finalize_answer only, from
\* the number of search results, with END next.
C15_WriteOnce == []C15_FinalizeOnce /\ [][C15_FinalizeStep]_vars

\* a run in which finalize_answer replaced the answer the caller passed in
C15_Witness ==
    /\ pc = "END"
    /\ "final_answer" \in DOMAIN initial_state
    /\ state["final_answer"] # initial_state["final_answer"]
    /\ state["final_answer"][2] = LenOf("search_results")

\* C16: the node order obeys the graph: one current node at a time;
\* generate_query runs exactly once, first; every web_research is directly
\* followed by reflection, so both have run equally often whenever a router
\* is consulted; END is entered from finalize_answer only, and a run that
\* has stopped is at END unless web_research raised for want of a query.
C16_NodeOrder ==
    /\ pc \in Nodes \cup {"START", "END", "KeyError"}
    /\ (trace # <<>>) => (trace[1] = "generate_query")
    /\ Count(trace, "generate_query") =
           (IF pc \in {"START", "generate_query"} THEN 0 ELSE 1)
    /\ \A i \in 1 .. Len(trace) :
           (trace[i] = "web_research") =>
               IF i < Len(trace)
               THEN trace[i + 1] = "reflection"
               ELSE pc = "reflection"
    /\ (trace # <<>> /\ trace[Len(trace)] \in DOMAIN Candidates)
           => (nWeb = nRefl)
    /\ (pc = "END") => (trace[Len(trace)] = "finalize_answer")
    /\ (\A i \in 1 .. Len(trace) - 1 : trace[i] # "finalize_answer")
    /\ (~ENABLED Next) => (pc \in {"END", "KeyError"})
    /\ (pc = "KeyError") => ~QueryGiven

C16_Witness ==
    /\ pc = "END"
    /\ nWeb = HardCap + 1
    /\ nRefl = HardCap + 1
    /\ trace[1] = "generate_query"
    /\ trace[Len(trace)] = "finalize_answer"

\* C17 (step part): a reflection step sets quality_score to 0.8 when
\* iteration_count >= 2 and to 0.5 otherwise, a value in [0,1]; it appends
\* one reflection and changes no other field.
C17_ReflectionStep ==
    (pc = "reflection") =>
        /\ state'["quality_score"] =
               (IF state["iteration_count"] >= 2 THEN 80 ELSE 50)
        /\ state'["quality_score"] \in 0 .. 100
        /\ Len(state'["reflections"]) = LenOf("reflections") + 1
        /\ DOMAIN state' = DOMAIN state \cup {"reflections", "quality_score"}
        /\ \A k \in DOMAIN state \ {"reflections", "quality_score"} :
               state'[k] = state[k]

\* C17 (state part): the scores written so far never decrease along the run
\* and follow the iteration each reflection ran at; after a reflection the
\* field holds the last score written.
C17_ScoresMonotone ==
    /\ \A i \in 1 .. Len(scoreLog) : \A j \in i .. Len(scoreLog) :
           /\ scoreLog[i] <= scoreLog[j]
           /\ ReflectionIter(i) <= ReflectionIter(j)
    /\ \A j \in 1 .. Len(scoreLog) :
           scoreLog[j] = (IF ReflectionIter(j) >= 2 THEN 80 ELSE 50)
    /\ (scoreLog # <<>>) => (state["quality_score"] = scoreLog[Len(scoreLog)])

\* C17: reflection overwrites quality_score by the reference policy and
\* touches nothing but reflections and quality_score.
C17_ReferenceScoring == []C17_ScoresMonotone /\ [][C17_ReflectionStep]_vars

\* a run in which a score passed in by the caller was overwritten and the
\* policy went from 0.5 to 0.8
C17_Witness ==
    /\ pc = "END"
    /\ "quality_score" \in DOMAIN initial_state
    /\ initial_state["quality_score"] = 0
    /\ scoreLog = <<50, 50, 80>>

\* the invocations in which the model invocation or a tool invocation raised
InvocationFailed(e) == e.kind = "invoke_raises" \/ e.tool_raised

\* C18 (state part): the sub-agents are invoked once each in list order, the
\* first on a copy of the caller's mapping and each later one on the
\* dictionary its predecessor returned; an invocation whose model or tool
\* invocation raised still returns, so that only an exception raised before
\* the try block (building the model, a callback) ends the run early; a run
\* that returns has invoked every sub-agent; the caller's mapping keeps its
\* top-level bindings.
C18_SequenceState ==
    /\ Len(invocations) <= Len(sub_agents)
    /\ \A i \in 1 .. Len(invocations) :
           LET e == invocations[i]
           IN  /\ e.agent = i
               /\ e.received # 1
               /\ (i > 1) => (e.received = invocations[i - 1].returned)
               /\ (e.kind \in {"invoke_raises", "response"})
                      => (e.returned = e.received)
               /\ (e.returned = 0) => (i = Len(invocations) /\ pc = "raised")
    /\ (pc = "raised") =>
           (invocations[Len(invocations)].kind
                \in {"construct_raises", "callback_raises"})
    /\ (pc = "returned") =>
           /\ Len(invocations) = Len(sub_agents)
           /\ trace = [i \in 1 .. Len(sub_agents) |-> sub_agents[i].name]
    /\ heap[1] = initial_state

\* C18 (step part): when the model or tool invocation of the agent named
\* primary_handler raises, the dictionary it returns holds
\* primary_location_failed = True.
C18_AbsorbStep ==
    (pc = "for_agent" /\ Len(invocations') > Len(invocations)) =>
        LET e == invocations'[Len(invocations')]
        IN  (InvocationFailed(e) /\ sub_agents[e.agent].name = "primary_handler")
                => /\ e.returned # 0
                   /\ "primary_location_failed" \in DOMAIN heap'[e.returned]
                   /\ heap'[e.returned]["primary_location_failed"] = TRUE

====
